---- MODULE Spec2Model ----
(***************************************************************************)
(* Model of sbpy.grid2d.Multiblock: construction of the grid connectivity *)
(* (corners, faces, edges, face_edges, interfaces, non_interfaces) from a  *)
(* block list, and the queries served afterwards.                          *)
(*                                                                         *)
(* Arrays are sequences (1-based); the values stored in them that are      *)
(* Python indices (block, corner and edge indices) are kept 0-based.       *)
(* A 2D array A of shape (Nx,Ny) is a sequence of Nx rows of length Ny:    *)
(* A[a+1][b+1] is Python's A[a,b].                                         *)
(***************************************************************************)
EXTENDS Integers, Sequences, FiniteSets, TLC

VARIABLES state, blocks, num_blocks, shapes, corners, faces, edges,
          face_edges, interfaces, non_interfaces, lastCall, result

vars == <<state, blocks, num_blocks, shapes, corners, faces, edges,
          face_edges, interfaces, non_interfaces, lastCall, result>>

fields == <<blocks, num_blocks, shapes, corners, faces, edges,
            face_edges, interfaces, non_interfaces>>

\* ---------------------------------------------------------------- bounds
MaxBlocks == 3
MaxN == 3

\* ------------------------------------------------------ array helpers
Rows(A) == Len(A)
Cols(A) == Len(A[1])
shape(A) == <<Rows(A), Cols(A)>>

\* np.flip of a 1D array
np_flip(a) == [k \in 1..Len(a) |-> a[Len(a) + 1 - k]]

\* lexicographic order on rows (pairs), the order np.unique(axis=0) sorts in
LexLess(p, q) == p[1] < q[1] \/ (p[1] = q[1] /\ p[2] < q[2])

\* The rows of S in ascending order, indexed from k on.
RECURSIVE sorted_rows(_, _)
sorted_rows(S, k) ==
    IF S = {}
    THEN <<>>
    ELSE LET least == CHOOSE p \in S : \A q \in S : ~LexLess(q, p)
         IN (k :> least) @@ sorted_rows(S \ {least}, k + 1)

\* np.unique(rows, axis=0): the distinct rows, sorted, indexed from 0
np_unique(S) == sorted_rows(S, 0)

\* np.argwhere(np.all(row == table, axis=1)).item()
argwhere_item(row, table) == CHOOSE k \in DOMAIN table : table[k] = row

\* sorted([a, b])
sorted2(a, b) == IF a <= b THEN <<a, b>> ELSE <<b, a>>

\* ------------------------------------------------------ side conventions
Sides == <<"s", "e", "n", "w">>
SideSet == {"s", "e", "n", "w"}

\* Variant: the west boundary read from the last row instead of the first.
get_function_boundary_west_last(F, side) ==
    CASE side = "w" -> F[Rows(F)]
      [] side = "e" -> F[Rows(F)]
      [] side = "s" -> [a \in 1..Rows(F) |-> F[a][1]]
      [] side = "n" -> [a \in 1..Rows(F) |-> F[a][Cols(F)]]

get_function_boundary(F, side) ==
    CASE side = "w" -> F[1]
      [] side = "e" -> F[Rows(F)]
      [] side = "s" -> [a \in 1..Rows(F) |-> F[a][1]]
      [] side = "n" -> [a \in 1..Rows(F) |-> F[a][Cols(F)]]

get_corners(X, Y) ==
    << <<X[1][1], Y[1][1]>>,
       <<X[Rows(X)][1], Y[Rows(Y)][1]>>,
       <<X[Rows(X)][Cols(X)], Y[Rows(Y)][Cols(Y)]>>,
       <<X[1][Cols(X)], Y[1][Cols(Y)]>> >>

\* ------------------------------------------------------ input block lists
\* Node counts of the test grids: Nh nodes across a cell, MaxN nodes along
\* the edge two neighbouring cells share.
Nh == 2
Nv == MaxN

\* Corner points of the unit cell anchored at x = c, counter-clockwise from
\* its lower-left corner.
CellCorners(c) == << <<c, 0>>, <<c + 1, 0>>, <<c + 1, 1>>, <<c, 1>> >>

\* The corner cycle started r corners later (the block's index axes rotated).
Rotate(cs, r) == [k \in 1..4 |-> cs[((k - 1 + r) % 4) + 1]]

\* The corner cycle traversed clockwise (a left-handed block).
Mirror(cs) == << cs[1], cs[4], cs[3], cs[2] >>

\* A block whose first and last rows are the same grid line (periodic wrap).
WrapCorners == << <<0, 0>>, <<0, 0>>, <<0, 1>>, <<0, 1>> >>

\* Coordinate arrays of shape (nx, ny) with the given corner points: the
\* bilinear map of the index square, scaled by (nx-1)(ny-1) to stay integral.
Coord(cs, d, nx, ny) ==
    [a \in 1..nx |-> [b \in 1..ny |->
          (nx - a) * (ny - b) * cs[1][d] + (a - 1) * (ny - b) * cs[2][d]
        + (a - 1) * (b - 1) * cs[3][d] + (nx - a) * (b - 1) * cs[4][d]]]

MakeBlock(cs, nx, ny) ==
    [X |-> Coord(cs, 1, nx, ny), Y |-> Coord(cs, 2, nx, ny)]

\* Right-handed blocks on cells 0 and 1 in their four rotations (an odd
\* rotation swaps the roles of the two index axes), one left-handed block and
\* one wrapped block.
BlockTypes ==
    {MakeBlock(Rotate(CellCorners(c), r),
               IF r % 2 = 0 THEN Nh ELSE Nv, IF r % 2 = 0 THEN Nv ELSE Nh) :
        c \in {0, 1}, r \in 0..3}
    \cup {MakeBlock(Mirror(CellCorners(1)), Nv, Nh)}
    \cup {MakeBlock(WrapCorners, Nh, Nv)}

\* A block whose Y array lost its last column.
Truncated(B) ==
    [X |-> B.X, Y |-> [a \in 1..Rows(B.Y) |-> SubSeq(B.Y[a], 1, Cols(B.Y) - 1)]]

BlockLists ==
    UNION {[0..(n - 1) -> BlockTypes] : n \in 1..MaxBlocks}

\* ------------------------------------------------------ __init__
Range(f) == {f[x] : x \in DOMAIN f}

unique_corners(bl) ==
    np_unique(UNION {Range(get_corners(bl[k].X, bl[k].Y)) : k \in DOMAIN bl})

\* The face of one block: the indices of its four corners in cn.
face_of(B, cn) ==
    LET block_corners == get_corners(B.X, B.Y)
    IN << argwhere_item(block_corners[1], cn),
          argwhere_item(block_corners[2], cn),
          argwhere_item(block_corners[3], cn),
          argwhere_item(block_corners[4], cn) >>

\* self.faces after the first n blocks have been appended.
RECURSIVE faces_upto(_, _, _)
faces_upto(bl, cn, n) ==
    IF n = 0
    THEN <<>>
    ELSE faces_upto(bl, cn, n - 1) @@ ((n - 1) :> face_of(bl[n - 1], cn))

make_faces(bl, cn) == faces_upto(bl, cn, Cardinality(DOMAIN bl))

\* np.array(sorted([face[k], face[(k+1)%4]]))
face_edge(face, k) == sorted2(face[k + 1], face[((k + 1) % 4) + 1])

unique_edges(fc) ==
    np_unique({face_edge(fc[n], k) : n \in DOMAIN fc, k \in 0..3})

\* The dict of one face: for k, side in enumerate(['s','e','n','w']).
face_edges_of(face, ed) ==
    [s |-> argwhere_item(face_edge(face, 0), ed),
     e |-> argwhere_item(face_edge(face, 1), ed),
     n |-> argwhere_item(face_edge(face, 2), ed),
     w |-> argwhere_item(face_edge(face, 3), ed)]

\* self.face_edges after the first n faces have been appended.
RECURSIVE face_edges_upto(_, _, _)
face_edges_upto(fc, ed, n) ==
    IF n = 0
    THEN <<>>
    ELSE face_edges_upto(fc, ed, n - 1)
            @@ ((n - 1) :> face_edges_of(fc[n - 1], ed))

make_face_edges(fc, ed) == face_edges_upto(fc, ed, Cardinality(DOMAIN fc))

\* dict[key] = value
dict_set(d, key, value) ==
    [x \in (DOMAIN d) \cup {key} |-> IF x = key THEN value ELSE d[x]]

\* Variant: block pairs taken with replacement (i <= j).
combinations2_with_replacement(n) ==
    {p \in (0..(n - 1)) \X (0..(n - 1)) : p[1] <= p[2]}

\* itertools.combinations(enumerate(face_edges), 2): the block pairs i < j
\* (yielded in lexicographic order, see runs_before).
combinations2(n) ==
    {p \in (0..(n - 1)) \X (0..(n - 1)) : p[1] < p[2]}

\* The passes of the nested loops, <<i, j, k1, k2>>: block pair (i,j) of the
\* outer loop and, for the inner loop over
\* itertools.product(['s','e','n','w'], repeat=2), the positions of side1 and
\* side2 in that list.
loop_passes(n) ==
    {<<p[1], p[2], k1, k2>> : p \in combinations2(n), k1 \in 0..3, k2 \in 0..3}

\* Pass p runs before pass q: both loops run in lexicographic order.
runs_before(p, q) ==
    \E m \in 1..4 : p[m] < q[m] /\ \A l \in 1..(m - 1) : p[l] = q[l]

\* Variant: only the entry of block i is written.
interface_step_one_way(fe, i, j, side1, side2) ==
    IF fe[i][side1] = fe[j][side2]
    THEN {[block |-> i, key |-> side1, value |-> <<j, side2>>]}
    ELSE {}

\* The body of the interface loop for block pair (i,j) and side pair
\* (side1, side2): the assignments interfaces[block][key] = value it makes.
interface_step(fe, i, j, side1, side2) ==
    IF fe[i][side1] = fe[j][side2]
    THEN {[block |-> i, key |-> side1, value |-> <<j, side2>>],
          [block |-> j, key |-> side2, value |-> <<i, side1>>]}
    ELSE {}

\* The assignment to interfaces[b][side] made in pass p, if any.
pass_writes(fe, p, b, side) ==
    {a \in interface_step(fe, p[1], p[2], Sides[p[3] + 1], Sides[p[4] + 1]) :
        a.block = b /\ a.key = side}

\* The dict of block b when the loops are done: a key for every side that
\* some pass assigned, holding what the last such pass assigned.
interfaces_of(fe, b) ==
    LET mine == {p \in loop_passes(Cardinality(DOMAIN fe)) :
                    b = p[1] \/ b = p[2]}
        writers(side) == {p \in mine : pass_writes(fe, p, b, side) # {}}
        last(side) == CHOOSE p \in writers(side) :
                         \A q \in writers(side) : q = p \/ runs_before(q, p)
    IN [side \in {sd \in SideSet : writers(sd) # {}} |->
           (CHOOSE a \in pass_writes(fe, last(side), b, side) : TRUE).value]

\* self.interfaces starts as [{} for _ in range(num_blocks)] and is filled
\* by the nested loops.
find_interfaces(fe) == [b \in DOMAIN fe |-> interfaces_of(fe, b)]

\* Variant: the block's own sides are not left out of other_edges.
find_non_interfaces_all_blocks(fe) ==
    [i \in DOMAIN fe |->
        LET other_edges == {fe[j][s] : j \in DOMAIN fe, s \in SideSet}
        IN SelectSeq(Sides, LAMBDA side : fe[i][side] \notin other_edges)]

\* Variant: a side is also compared with the block's own other sides.
find_non_interfaces_self_check(fe) ==
    [i \in DOMAIN fe |->
        LET other_edges(side) ==
                {fe[j][s] : j \in (DOMAIN fe) \ {i}, s \in SideSet}
                \cup {fe[i][s] : s \in SideSet \ {side}}
        IN SelectSeq(Sides, LAMBDA side : fe[i][side] \notin other_edges(side))]

find_non_interfaces(fe) ==
    [i \in DOMAIN fe |->
        LET other_edges == {fe[j][s] : j \in (DOMAIN fe) \ {i}, s \in SideSet}
        IN SelectSeq(Sides, LAMBDA side : fe[i][side] \notin other_edges)]

\* What a call hands back: a returned value, or the exception it raised.
Returned(v) == [status |-> "ok", value |-> v]
Raised(e) == [status |-> e, value |-> <<>>]
NoResult == [status |-> "none", value |-> <<>>]

\* The call whose result the caller holds, with its arguments (unused
\* arguments left empty).
Call(op, F, block_idx, side, f) ==
    [op |-> op, F |-> F, block_idx |-> block_idx, side |-> side, f |-> f]
NoCall == Call("none", <<>>, 0, "", "")

\* A caller holding no result may make any call; a caller holding a result
\* may repeat the call that gave it, or let go of the result first (Discard).
\* Every sequence of calls is a run: Discard changes nothing of the object.
CanCall(c) == lastCall = NoCall \/ lastCall = c

Init ==
    /\ state = "Assembling"
    /\ \E bl \in BlockLists, bad \in {FALSE, TRUE} :
          blocks = IF bad
                   THEN [bl EXCEPT ![Cardinality(DOMAIN bl) - 1] = Truncated(@)]
                   ELSE bl
    /\ num_blocks = 0
    /\ shapes = <<>>
    /\ corners = <<>>
    /\ faces = <<>>
    /\ edges = <<>>
    /\ face_edges = <<>>
    /\ interfaces = <<>>
    /\ non_interfaces = <<>>
    /\ lastCall = NoCall
    /\ result = NoResult

\* Multiblock.__init__(blocks)
Construct ==
    /\ state = "Assembling"
    /\ IF \E k \in DOMAIN blocks : shape(blocks[k].X) # shape(blocks[k].Y)
       THEN /\ state' = "Failed"
            /\ result' = Raised("AssertionError")
            /\ UNCHANGED <<fields, lastCall>>
       ELSE /\ num_blocks' = Cardinality(DOMAIN blocks)
            /\ shapes' = [k \in DOMAIN blocks |-> shape(blocks[k].X)]
            /\ corners' = unique_corners(blocks)
            /\ faces' = make_faces(blocks, corners')
            /\ edges' = unique_edges(faces')
            /\ face_edges' = make_face_edges(faces', edges')
            /\ interfaces' = find_interfaces(face_edges')
            /\ non_interfaces' = find_non_interfaces(face_edges')
            /\ state' = "Ready"
            /\ UNCHANGED <<blocks, lastCall, result>>

\* ------------------------------------------------------ queries
\* Multiblock.is_interface
is_interface(block_idx, side) == side \in DOMAIN interfaces[block_idx]

\* Variant: the pair (w,w) is missing and (w,e) is listed.
flip_pairs_west_east ==
    { <<"s", "e">>, <<"s", "s">>, <<"e", "s">>, <<"e", "e">>,
      <<"n", "w">>, <<"n", "n">>, <<"w", "n">>, <<"w", "e">> }

\* The side pairs (neighbor_side, side) for which the boundary is reversed.
flip_pairs ==
    { <<"s", "e">>, <<"s", "s">>, <<"e", "s">>, <<"e", "e">>,
      <<"n", "w">>, <<"n", "n">>, <<"w", "n">>, <<"w", "w">> }

\* Variant: no check of the interface; a side without a neighbour yields
\* F's own boundary at that side.
get_neighbor_boundary_unchecked(F, block_idx, side) ==
    LET neighbor_side == IF is_interface(block_idx, side)
                         THEN interfaces[block_idx][side][2] ELSE side
    IN IF <<neighbor_side, side>> \in flip_pairs
       THEN Returned(np_flip(get_function_boundary(F, neighbor_side)))
       ELSE Returned(get_function_boundary(F, neighbor_side))

\* Multiblock.get_neighbor_boundary
get_neighbor_boundary(F, block_idx, side) ==
    IF ~is_interface(block_idx, side)
    THEN Raised("AssertionError")
    ELSE LET neighbor_side == interfaces[block_idx][side][2]
         IN IF <<neighbor_side, side>> \in flip_pairs
            THEN Returned(np_flip(get_function_boundary(F, neighbor_side)))
            ELSE Returned(get_function_boundary(F, neighbor_side))

\* The grid function handed to get_neighbor_boundary: node [a,b] of an
\* (nx,ny) block carries the value 10(a+1)+b, which identifies the node, so
\* the result shows which nodes were read in which order.
GridFunction(shp) ==
    [a \in 1..shp[1] |-> [b \in 1..shp[2] |-> 10 * a + (b - 1)]]

\* The block a caller takes F from: the neighbour across the side.
source_block(block_idx, side) ==
    IF is_interface(block_idx, side)
    THEN interfaces[block_idx][side][1] ELSE block_idx

\* Variant: the lookup inserts the side it was asked about.
IsInterface_inserting ==
    /\ state = "Ready"
    /\ \E block_idx \in 0..(num_blocks - 1), side \in SideSet :
          /\ CanCall(Call("is_interface", <<>>, block_idx, side, ""))
          /\ lastCall' = Call("is_interface", <<>>, block_idx, side, "")
          /\ result' = Returned(is_interface(block_idx, side))
          /\ interfaces' =
                [interfaces EXCEPT ![block_idx] =
                    IF side \in DOMAIN @ THEN @
                    ELSE dict_set(@, side, <<block_idx, side>>)]
    /\ UNCHANGED <<state, blocks, num_blocks, shapes, corners, faces, edges,
                   face_edges, non_interfaces>>

IsInterface ==
    /\ state = "Ready"
    /\ \E block_idx \in 0..(num_blocks - 1), side \in SideSet :
          /\ CanCall(Call("is_interface", <<>>, block_idx, side, ""))
          /\ lastCall' = Call("is_interface", <<>>, block_idx, side, "")
          /\ result' = Returned(is_interface(block_idx, side))
    /\ UNCHANGED <<state, fields>>

GetNeighborBoundary ==
    /\ state = "Ready"
    /\ \E block_idx \in 0..(num_blocks - 1), side \in SideSet :
          LET F == GridFunction(shapes[source_block(block_idx, side)])
          IN /\ CanCall(Call("get_neighbor_boundary", F, block_idx, side, ""))
             /\ lastCall' = Call("get_neighbor_boundary", F, block_idx, side, "")
             /\ result' = get_neighbor_boundary(F, block_idx, side)
    /\ UNCHANGED <<state, fields>>

\* Multiblock.get_shapes
GetShapes ==
    /\ state = "Ready"
    /\ CanCall(Call("get_shapes", <<>>, 0, "", ""))
    /\ lastCall' = Call("get_shapes", <<>>, 0, "", "")
    /\ result' = Returned(shapes)
    /\ UNCHANGED <<state, fields>>

\* The vectorized functions handed to evaluate_function.
apply_f(f, X, Y) ==
    [a \in 1..Rows(X) |-> [b \in 1..Cols(X) |->
        IF f = "x+y" THEN X[a][b] + Y[a][b] ELSE X[a][b] * Y[a][b]]]

\* Multiblock.evaluate_function
EvaluateFunction ==
    /\ state = "Ready"
    /\ \E f \in {"x+y", "x*y"} :
          /\ CanCall(Call("evaluate_function", <<>>, 0, "", f))
          /\ lastCall' = Call("evaluate_function", <<>>, 0, "", f)
          /\ result' = Returned([k \in DOMAIN blocks |->
                                    apply_f(f, blocks[k].X, blocks[k].Y)])
    /\ UNCHANGED <<state, fields>>

\* The caller lets go of the result it holds.
Discard ==
    /\ state = "Ready"
    /\ lastCall # NoCall
    /\ lastCall' = NoCall
    /\ result' = NoResult
    /\ UNCHANGED <<state, fields>>

Next ==
    \/ Construct
    \/ IsInterface
    \/ GetNeighborBoundary
    \/ GetShapes
    \/ EvaluateFunction
    \/ Discard

Spec == Init /\ [][Next]_vars

\* ====================================================== properties
Ready == state = "Ready"
BlockIdx == DOMAIN interfaces

\* The last call was get_neighbor_boundary for a registered interface.
ExchangeDone ==
    /\ Ready
    /\ lastCall.op = "get_neighbor_boundary"
    /\ is_interface(lastCall.block_idx, lastCall.side)

\* The (block, side) occurrences of global edge e.
Occurrences(e) ==
    {p \in BlockIdx \X SideSet : face_edges[p[1]][p[2]] = e}

\* Position (0..3) of a side in the order s, e, n, w.
SidePos(side) == CHOOSE k \in 0..3 : Sides[k + 1] = side

\* Local corner (1..4, in face order) at which a block's own boundary at a
\* side starts and ends: s: corner0->corner1, e: corner1->corner2,
\* n: corner3->corner2, w: corner0->corner3.
BoundaryFirst(side) ==
    CASE side = "s" -> 1 [] side = "e" -> 2 [] side = "n" -> 4 [] side = "w" -> 1
BoundaryLast(side) ==
    CASE side = "s" -> 2 [] side = "e" -> 3 [] side = "n" -> 3 [] side = "w" -> 4

\* F's value at the corner node of its block that is local corner q.
CornerValue(F, q) ==
    CASE q = 1 -> F[1][1]
      [] q = 2 -> F[Rows(F)][1]
      [] q = 3 -> F[Rows(F)][Cols(F)]
      [] q = 4 -> F[1][Cols(F)]

\* The array r returned for (F, i, side) starts and ends at the neighbour's
\* corner nodes that are the global corners where block i's boundary at side
\* starts and ends.
Aligned(F, i, side, r) ==
    LET j == interfaces[i][side][1]
    IN /\ \E q \in 1..4 : /\ faces[j][q] = faces[i][BoundaryFirst(side)]
                          /\ r[1] = CornerValue(F, q)
       /\ \E q \in 1..4 : /\ faces[j][q] = faces[i][BoundaryLast(side)]
                          /\ r[Len(r)] = CornerValue(F, q)

\* The corner cycles of block i and of its neighbour across side run through
\* the shared edge in opposite directions.
Opposed(i, side) ==
    LET j == interfaces[i][side][1]
        k == SidePos(side)
        l == SidePos(interfaces[i][side][2])
    IN /\ faces[i][k + 1] = faces[j][((l + 1) % 4) + 1]
       /\ faces[i][((k + 1) % 4) + 1] = faces[j][l + 1]

\* C1: after construction the interface map is symmetric: if
\* interfaces[i][s1] = (j, s2) then interfaces[j][s2] exists and is (i, s1).
C1_Symmetric ==
    Ready =>
      \A i \in BlockIdx : \A s1 \in DOMAIN interfaces[i] :
         LET j  == interfaces[i][s1][1]
             s2 == interfaces[i][s1][2]
         IN /\ s2 \in DOMAIN interfaces[j]
            /\ interfaces[j][s2] = <<i, s1>>

\* C2: after construction every side of every block is classified exactly
\* once: it is a key of interfaces[i] or it occurs in non_interfaces[i], never
\* both, never neither, and never twice in non_interfaces[i].
C2_Complete ==
    Ready =>
      \A i \in BlockIdx : \A side \in SideSet :
         LET listed == {k \in DOMAIN non_interfaces[i] : non_interfaces[i][k] = side}
         IN /\ is_interface(i, side) <=> (listed = {})
            /\ Cardinality(listed) <= 1

C2_Witness ==
    /\ Ready
    /\ \E i \in BlockIdx :
          /\ DOMAIN interfaces[i] # {}
          /\ Len(non_interfaces[i]) > 0

\* C3: a block list in which three or more blocks have a side on the same
\* global edge is rejected: construction never completes for it.
C3_NonManifoldRejected ==
    Ready =>
      \A e \in DOMAIN edges :
         Cardinality({p[1] : p \in Occurrences(e)}) <= 2

\* C4 (as stated): for every registered interface the array returned by
\* get_neighbor_boundary is aligned with the requesting block's boundary.
C4_AlignedAlways ==
    ExchangeDone =>
      /\ result.status = "ok"
      /\ Aligned(lastCall.F, lastCall.block_idx, lastCall.side, result.value)

\* C4 (amended): for every registered interface across which the two blocks'
\* corner cycles run through the shared edge in opposite directions, the array
\* returned by get_neighbor_boundary is aligned with the requesting block's
\* boundary.
C4_AlignedWhenOpposed ==
    (ExchangeDone /\ Opposed(lastCall.block_idx, lastCall.side)) =>
      /\ result.status = "ok"
      /\ Aligned(lastCall.F, lastCall.block_idx, lastCall.side, result.value)

\* Block 1's west boundary 10, 11, 12 handed unchanged to block 0's east side.
C4_Witness ==
    /\ ExchangeDone
    /\ Opposed(lastCall.block_idx, lastCall.side)
    /\ lastCall.block_idx = 0
    /\ lastCall.side = "e"
    /\ interfaces[0]["e"] = <<1, "w">>
    /\ result.status = "ok"
    /\ Len(result.value) >= 3
    /\ SubSeq(result.value, 1, 3) = <<10, 11, 12>>

\* C5: get_neighbor_boundary returns the neighbour's boundary reversed exactly
\* for the side pairs (neighbor_side, side) (s,e), (s,s), (e,s), (e,e), (n,w),
\* (n,n), (w,n), (w,w), and in the neighbour's own order for the other eight.
C5_FlipTable ==
    ExchangeDone =>
      LET side  == lastCall.side
          nside == interfaces[lastCall.block_idx][side][2]
          own   == get_function_boundary(lastCall.F, nside)
          rev   == [k \in 1..Len(own) |-> own[Len(own) + 1 - k]]
          listed == <<nside, side>> \in
                      { <<"s", "e">>, <<"s", "s">>, <<"e", "s">>, <<"e", "e">>,
                        <<"n", "w">>, <<"n", "n">>, <<"w", "n">>, <<"w", "w">> }
      IN /\ result.status = "ok"
         /\ own # rev
         /\ result.value = IF listed THEN rev ELSE own

C5_Witness ==
    /\ ExchangeDone
    /\ lastCall.side = "w"
    /\ interfaces[lastCall.block_idx]["w"][2] = "n"
    /\ result.status = "ok"
    /\ result.value[1] > result.value[Len(result.value)]

\* C6: get_neighbor_boundary for a (block, side) that is no registered
\* interface raises an error and returns no boundary data.
C6_NonInterfaceRaises ==
    (/\ Ready
     /\ lastCall.op = "get_neighbor_boundary"
     /\ ~is_interface(lastCall.block_idx, lastCall.side)) =>
      /\ result.status = "AssertionError"
      /\ result.value = <<>>

C6_Witness ==
    /\ Ready
    /\ lastCall.op = "get_neighbor_boundary"
    /\ ~is_interface(lastCall.block_idx, lastCall.side)
    /\ num_blocks = 2
    /\ \E side \in SideSet : is_interface(lastCall.block_idx, side)

\* Blocks 0 and 1 are the whole list, block 0's east corners are block 1's
\* west corners, and no other corners coincide.
ShareEastWestOnly ==
    /\ DOMAIN blocks = {0, 1}
    /\ LET c == get_corners(blocks[0].X, blocks[0].Y)
           d == get_corners(blocks[1].X, blocks[1].Y)
       IN /\ {c[2], c[3]} = {d[1], d[4]}
          /\ Cardinality(Range(c) \cup Range(d)) = 6

\* C7: two blocks sharing exactly the edge east of block 0 / west of block 1
\* get interfaces[0] = {e: (1,w)} and interfaces[1] = {w: (0,e)},
\* is_interface(0,e) holds, and the other three sides of each block are
\* exactly its non_interfaces.
C7_TwoBlocks ==
    (Ready /\ ShareEastWestOnly) =>
      /\ DOMAIN interfaces[0] = {"e"}
      /\ interfaces[0]["e"] = <<1, "w">>
      /\ DOMAIN interfaces[1] = {"w"}
      /\ interfaces[1]["w"] = <<0, "e">>
      /\ is_interface(0, "e")
      /\ Len(non_interfaces[0]) = 3
      /\ Range(non_interfaces[0]) = {"s", "n", "w"}
      /\ Len(non_interfaces[1]) = 3
      /\ Range(non_interfaces[1]) = {"s", "e", "n"}

C7_Witness ==
    /\ Ready
    /\ ShareEastWestOnly
    /\ lastCall.op = "is_interface"
    /\ lastCall.block_idx = 0
    /\ lastCall.side = "e"
    /\ result.value = TRUE

\* C8: once Ready, every call leaves the object Ready and corners, edges,
\* faces, face_edges, interfaces and non_interfaces unchanged, and a call
\* repeated with the same arguments returns the same result.
C8_ReadyIsFrozen ==
    [][Ready =>
         /\ Ready'
         /\ UNCHANGED <<corners, edges, faces, face_edges, interfaces,
                        non_interfaces>>
         /\ (lastCall' = lastCall => result' = result)]_vars

C8_Witness ==
    /\ Ready
    /\ lastCall.op = "is_interface"
    /\ result.value = FALSE
    /\ num_blocks >= 2

\* Sides s1 # s2 of block i lie on the same global edge and no other block
\* has a side on it.
SelfAdjacent(i, s1, s2) ==
    /\ s1 # s2
    /\ face_edges[i][s1] = face_edges[i][s2]
    /\ \A p \in Occurrences(face_edges[i][s1]) : p[1] = i

\* C9: self-adjacency is not detected: construction fails only on a shape
\* mismatch, and when two sides of one block lie on the same global edge that
\* no other block touches, both are listed in the block's non_interfaces and
\* is_interface is false for both.
C9_SelfAdjacencyUnnoticed ==
    /\ state = "Failed" =>
          \E k \in DOMAIN blocks : shape(blocks[k].X) # shape(blocks[k].Y)
    /\ Ready =>
          \A i \in BlockIdx : \A s1 \in SideSet : \A s2 \in SideSet :
             SelfAdjacent(i, s1, s2) =>
               /\ s1 \in Range(non_interfaces[i])
               /\ s2 \in Range(non_interfaces[i])
               /\ ~is_interface(i, s1)
               /\ ~is_interface(i, s2)

C9_Witness ==
    /\ Ready
    /\ num_blocks >= 2
    /\ \E i \in BlockIdx : SelfAdjacent(i, "e", "w")

\* C10: every recorded interface entry joins two distinct blocks on one
\* edge: interfaces[i][s1] = (j, s2) implies j # i and
\* face_edges[i][s1] = face_edges[j][s2], also when an edge has more than two
\* occurrences.
C10_EntriesBacked ==
    Ready =>
      \A i \in BlockIdx : \A s1 \in DOMAIN interfaces[i] :
         LET j  == interfaces[i][s1][1]
             s2 == interfaces[i][s1][2]
         IN /\ j # i
            /\ j \in BlockIdx
            /\ face_edges[i][s1] = face_edges[j][s2]

C10_Witness ==
    /\ Ready
    /\ \E e \in DOMAIN edges :
          /\ Cardinality(Occurrences(e)) > 2
          /\ \E p \in Occurrences(e) : is_interface(p[1], p[2])

====
